---- MODULE Spec2Model ----
(***************************************************************************)
(* A model of OOP_chess.py: the figures' movement geometry, the Board and  *)
(* its variants (CheckersBoard, ExtendedBoard) with their history of grid  *)
(* snapshots, and the turn loop Game.play.                                 *)
(*                                                                         *)
(* Python objects are modelled with their identity.  A figure is an index  *)
(* into figs (its attributes color, position, kill are shared by every     *)
(* grid that holds it); a row list is an index into rows, so that two      *)
(* grids holding the same row identifier are the same list in memory.      *)
(***************************************************************************)
EXTENDS Integers, Sequences, FiniteSets, TLC

VARIABLES
    cls,            \* class of self.board: "Board", "CheckersBoard", "ExtendedBoard"
    rows,           \* heap of row lists: row id -> [0..7 -> figure id or None]
    field,          \* Board.field: [0..7 -> row id]
    history,        \* Board.history: sequence of snapshots, each [0..7 -> row id]
    figs,           \* heap of Figure objects: sequence of [kind, color, position, kill]
    current_player, \* Game.current_player
    game_over,      \* Game.game_over
    moves,          \* Game.moves
    is_rock,        \* Game.is_rock
    is_chess,       \* Game.is_chess
    move,           \* local move of Game.play: the tokens of the last move input
    x,              \* local x of Game.play (row index), Unbound before its first assignment
    y,              \* local y of Game.play (column index)
    out,            \* the last message the program printed
    fault,          \* the uncaught exception that ended the process, or NoFault
    fuel,           \* the number of further operations the model explores
    log,            \* the Board operations called since construction ("m", "u", "r")
    call,           \* the last Board method called directly: its name and arguments
    ret             \* what that call returned

vars == <<cls, rows, field, history, figs, current_player, game_over, moves,
          is_rock, is_chess, move, x, y, out, fault, fuel, log, call, ret>>

boardVars == <<cls, rows, field, history, figs>>

gameVars == <<current_player, game_over, moves, is_rock, is_chess, move, x, y>>

-----------------------------------------------------------------------------
(* Values *)

None == 0

Size == 8

Idx == 0 .. (Size - 1)

Cells == Idx \X Idx

Unbound == -1

NoFault == "none"

Other(color) == IF color = "white" THEN "black" ELSE "white"

Abs(n) == IF n < 0 THEN -n ELSE n

Min(a, b) == IF a < b THEN a ELSE b

Max(a, b) == IF a < b THEN b ELSE a

SetMax(S) == CHOOSE m \in S : \A n \in S : n <= m

InBoard(c) == 0 <= c[1] /\ c[1] < Size /\ 0 <= c[2] /\ c[2] < Size

\* range(start, stop) and range(start, stop, -1) as the sequence Python iterates
Range(start, stop) == [i \in 1 .. Max(0, stop - start) |-> start + i - 1]

RangeDown(start, stop) == [i \in 1 .. Max(0, start - stop) |-> start - i + 1]

SeqToSet(s) == {s[i] : i \in 1 .. Len(s)}

RemoveAt(s, i) == [j \in 1 .. (Len(s) - 1) |-> IF j < i THEN s[j] ELSE s[j + 1]]

-----------------------------------------------------------------------------
(* Figures: isinstance and get_possible_moves *)

Figure(kind, color, position) ==
    [kind |-> kind, color |-> color, position |-> position, kill |-> FALSE]

\* isinstance(fig, classes); Snake is a subclass of King, so a Snake is an
\* instance of King
IsInstance(fig, classes) ==
    fig.kind \in classes \/ (fig.kind = "Snake" /\ "King" \in classes)

ChessKinds == {"Pawn", "Rook", "Bishop", "Knight", "King", "Queen", "Ghost", "Snake"}

CheckersFigure_get_possible_moves(color, pos) ==
    IF color = "white"
    THEN {<<pos[1] - 1, pos[2] + 1>>, <<pos[1] - 1, pos[2] - 1>>}
    ELSE {<<pos[1] + 1, pos[2] + 1>>, <<pos[1] + 1, pos[2] - 1>>}

\* the cells visited from (px, py) in direction (dx, dy), steps i, i+1, .. below
\* limit, stopping at the first cell off the board
RECURSIVE Ray(_, _, _, _, _, _)
Ray(px, py, dx, dy, i, limit) ==
    IF i >= limit THEN {}
    ELSE LET c == <<px + dx * i, py + dy * i>>
         IN  IF InBoard(c) THEN {c} \cup Ray(px, py, dx, dy, i + 1, limit) ELSE {}

Ghost_get_possible_moves(pos) ==
    UNION {Ray(pos[1], pos[2], d[1], d[2], 1, Size) :
              d \in {<<1, 0>>, <<-1, 0>>, <<0, 1>>, <<0, -1>>}}

\* "for move in possible_moves: if off board: possible_moves.remove(move)":
\* the list is changed while it is iterated, so the element after a removed one
\* is skipped
RECURSIVE PawnFilter(_, _)
PawnFilter(lst, i) ==
    IF i > Len(lst) THEN lst
    ELSE IF ~InBoard(lst[i]) THEN PawnFilter(RemoveAt(lst, i), i + 1)
         ELSE PawnFilter(lst, i + 1)

\* a faulty Pawn.get_possible_moves that returns its list unfiltered
Pawn_get_possible_moves_unfiltered(color, pos) ==
    LET one == IF color = "white" THEN <<pos[1] - 1, pos[2]>> ELSE <<pos[1] + 1, pos[2]>>
        two == IF pos[1] = 6 /\ color = "white" THEN << <<pos[1] - 2, pos[2]>> >>
               ELSE IF pos[1] = 1 /\ color = "black" THEN << <<pos[1] + 2, pos[2]>> >>
               ELSE << >>
    IN  SeqToSet(<<one>> \o two)

Pawn_get_possible_moves(color, pos) ==
    LET one == IF color = "white" THEN <<pos[1] - 1, pos[2]>> ELSE <<pos[1] + 1, pos[2]>>
        two == IF pos[1] = 6 /\ color = "white" THEN << <<pos[1] - 2, pos[2]>> >>
               ELSE IF pos[1] = 1 /\ color = "black" THEN << <<pos[1] + 2, pos[2]>> >>
               ELSE << >>
    IN  SeqToSet(PawnFilter(<<one>> \o two, 1))

Rook_get_possible_moves(pos) ==
    {<<i, pos[2]>> : i \in Idx \ {pos[1]}} \cup {<<pos[1], i>> : i \in Idx \ {pos[2]}}

Knight_get_possible_moves(pos) ==
    {<<pos[1] + d[1], pos[2] + d[2]>> :
        d \in {<<1, 2>>, <<2, 1>>, <<1, -2>>, <<2, -1>>,
               <<-1, 2>>, <<-2, 1>>, <<-2, -1>>, <<-1, -2>>}}

Bishop_get_possible_moves(pos) ==
    UNION {Ray(pos[1], pos[2], d[1], d[2], 1, 2 * Size) :
              d \in {<<-1, -1>>, <<-1, 1>>, <<1, -1>>, <<1, 1>>}}

Queen_get_possible_moves(pos) ==
    Rook_get_possible_moves(pos) \cup Bishop_get_possible_moves(pos)

King_get_possible_moves(pos) ==
    {<<pos[1] + d[1], pos[2] + d[2]>> :
        d \in {<<1, 0>>, <<-1, 0>>, <<0, 1>>, <<0, -1>>,
               <<1, 1>>, <<-1, -1>>, <<1, -1>>, <<-1, 1>>}}

get_possible_moves(fig) ==
    CASE fig.kind = "CheckersFigure" ->
             CheckersFigure_get_possible_moves(fig.color, fig.position)
      [] fig.kind = "Ghost" -> Ghost_get_possible_moves(fig.position)
      [] fig.kind = "Pawn" -> Pawn_get_possible_moves(fig.color, fig.position)
      [] fig.kind = "Rook" -> Rook_get_possible_moves(fig.position)
      [] fig.kind = "Knight" -> Knight_get_possible_moves(fig.position)
      [] fig.kind = "Bishop" -> Bishop_get_possible_moves(fig.position)
      [] fig.kind = "Queen" -> Queen_get_possible_moves(fig.position)
      [] fig.kind \in {"King", "Snake"} -> King_get_possible_moves(fig.position)

-----------------------------------------------------------------------------
(* The Board object.  Operators take and return the board as a record       *)
(* [cls, rows, field, history, figs], so that one method can call another.  *)

TheBoard ==
    [cls |-> cls, rows |-> rows, field |-> field, history |-> history, figs |-> figs]

\* self.field[r][c]
At(b, r, c) == b.rows[b.field[r]][c]

\* self.field[r][c] = v: the row list is changed in place, for every grid holding it
SetAt(b, r, c, v) == [b EXCEPT !.rows[b.field[r]][c] = v]

\* the cell contents of a grid, whichever row lists hold them
GridOf(b, grid) == [r \in Idx |-> b.rows[grid[r]]]

\* row lists no longer referenced by field or history are freed
Collect(b) ==
    LET live == {b.field[r] : r \in Idx}
                  \cup UNION {{b.history[i][r] : r \in Idx} : i \in 1 .. Len(b.history)}
    IN  [b EXCEPT !.rows = [id \in live |-> b.rows[id]]]

\* board_copy = [row.copy() for row in self.field]; self.history.append(board_copy)
save_state(b) ==
    LET base == IF DOMAIN b.rows = {} THEN 0 ELSE SetMax(DOMAIN b.rows)
        copy == [r \in Idx |-> base + 1 + r]
    IN  [b EXCEPT
            !.rows = [id \in DOMAIN b.rows \cup {copy[r] : r \in Idx} |->
                         IF id \in DOMAIN b.rows THEN b.rows[id]
                         ELSE b.rows[b.field[id - base - 1]]],
            !.history = Append(b.history, copy)]

\* a faulty undo_move that pops the history but leaves self.field as it is
undo_move_keeps_field(b) ==
    IF Len(b.history) > 1
    THEN [b EXCEPT !.history = SubSeq(b.history, 1, Len(b.history) - 1)]
    ELSE b

\* self.history.pop(); self.field = self.history[-1]: field now IS the snapshot
undo_move(b) ==
    IF Len(b.history) > 1
    THEN LET h == SubSeq(b.history, 1, Len(b.history) - 1)
         IN  Collect([b EXCEPT !.history = h, !.field = h[Len(h)]])
    ELSE b

\* what undo_move prints: "move undone" or "no moves to undo"
undo_move_message(b) ==
    IF Len(b.history) > 1 THEN "undone" ELSE "nothing to undo"

RECURSIVE DiagonalClear(_, _, _, _, _, _, _)
DiagonalClear(b, row, col, row_step, col_step, a2, b2) ==
    IF ~(row # a2 \/ col # b2) THEN "True"
    ELSE IF At(b, row, col) # None THEN "False"
         ELSE DiagonalClear(b, row + row_step, col + col_step, row_step, col_step, a2, b2)

\* a faulty is_path_clear that looks at the first cell of the path only
is_path_clear_first_cell(b, a1, b1, a2, b2) ==
    IF a1 = a2 \/ b1 = b2 \/ Abs(a1 - a2) = Abs(b1 - b2)
    THEN LET row == IF a2 > a1 THEN a1 + 1 ELSE IF a2 < a1 THEN a1 - 1 ELSE a1
             col == IF b2 > b1 THEN b1 + 1 ELSE IF b2 < b1 THEN b1 - 1 ELSE b1
         IN  IF row = a2 /\ col = b2 THEN "True"
             ELSE IF At(b, row, col) # None THEN "False" ELSE "True"
    ELSE "None"

\* returns "True" or "False", or "None" where the code falls off its last elif
is_path_clear(b, a1, b1, a2, b2) ==
    IF a1 = a2
    THEN IF \E col \in (Min(b1, b2) + 1) .. (Max(b1, b2) - 1) : At(b, a1, col) # None
         THEN "False" ELSE "True"
    ELSE IF b1 = b2
    THEN IF \E row \in (Min(a1, a2) + 1) .. (Max(a1, a2) - 1) : At(b, row, b1) # None
         THEN "False" ELSE "True"
    ELSE IF Abs(a1 - a2) = Abs(b1 - b2)
    THEN LET row_step == IF a2 > a1 THEN 1 ELSE -1
             col_step == IF b2 > b1 THEN 1 ELSE -1
         IN  DiagonalClear(b, a1 + row_step, b1 + col_step, row_step, col_step, a2, b2)
    ELSE "None"

\* Python's truth value of what is_path_clear returned
Truthy(v) == v = "True"

\* the two diagonal cells that replace a pawn's moves when it captures
PawnCaptureMoves(color, a1, b1) ==
    IF color = "white"
    THEN {<<a1 - 1, b1 + 1>>, <<a1 - 1, b1 - 1>>}
    ELSE {<<a1 + 1, b1 + 1>>, <<a1 + 1, b1 - 1>>}

\* a faulty Board.check_move that refuses a destination holding a piece of the
\* mover's colour
Board_check_move_no_self_capture(b, step1, step2) ==
    LET a1 == step1[1]
        b1 == step1[2]
        a2 == step2[1]
        b2 == step2[2]
        figure == At(b, a1, b1)
        enemy == At(b, a2, b2)
    IN  IF figure = None THEN FALSE
        ELSE IF enemy # None /\ b.figs[enemy].color = b.figs[figure].color THEN FALSE
        ELSE IF IsInstance(b.figs[figure], ChessKinds)
        THEN LET possible_moves ==
                     IF /\ IsInstance(b.figs[figure], {"Pawn"})
                        /\ enemy # None
                        /\ IsInstance(b.figs[enemy], ChessKinds)
                        /\ b.figs[figure].color # b.figs[enemy].color
                     THEN PawnCaptureMoves(b.figs[figure].color, a1, b1)
                     ELSE get_possible_moves(b.figs[figure])
             IN  IF <<a2, b2>> \in possible_moves
                 THEN IF IsInstance(b.figs[figure], {"Knight", "Ghost"}) THEN TRUE
                      ELSE Truthy(is_path_clear(b, a1, b1, a2, b2))
                 ELSE FALSE
        ELSE FALSE

\* a faulty Board.check_move that asks for a clear path whatever the piece
Board_check_move_no_leap(b, step1, step2) ==
    LET a1 == step1[1]
        b1 == step1[2]
        a2 == step2[1]
        b2 == step2[2]
        figure == At(b, a1, b1)
        enemy == At(b, a2, b2)
    IN  IF figure = None THEN FALSE
        ELSE IF IsInstance(b.figs[figure], ChessKinds)
        THEN LET possible_moves ==
                     IF /\ IsInstance(b.figs[figure], {"Pawn"})
                        /\ enemy # None
                        /\ IsInstance(b.figs[enemy], ChessKinds)
                        /\ b.figs[figure].color # b.figs[enemy].color
                     THEN PawnCaptureMoves(b.figs[figure].color, a1, b1)
                     ELSE get_possible_moves(b.figs[figure])
             IN  <<a2, b2>> \in possible_moves /\ Truthy(is_path_clear(b, a1, b1, a2, b2))
        ELSE FALSE

Board_check_move(b, step1, step2) ==
    LET a1 == step1[1]
        b1 == step1[2]
        a2 == step2[1]
        b2 == step2[2]
        figure == At(b, a1, b1)
        enemy == At(b, a2, b2)
    IN  IF figure = None THEN FALSE
        ELSE IF IsInstance(b.figs[figure], ChessKinds)
        THEN LET possible_moves ==
                     IF /\ IsInstance(b.figs[figure], {"Pawn"})
                        /\ enemy # None
                        /\ IsInstance(b.figs[enemy], ChessKinds)
                        /\ b.figs[figure].color # b.figs[enemy].color
                     THEN PawnCaptureMoves(b.figs[figure].color, a1, b1)
                     ELSE get_possible_moves(b.figs[figure])
             IN  IF <<a2, b2>> \in possible_moves
                 THEN IF IsInstance(b.figs[figure], {"Knight", "Ghost"}) THEN TRUE
                      ELSE Truthy(is_path_clear(b, a1, b1, a2, b2))
                 ELSE FALSE
        ELSE FALSE

CheckersBoard_check_move(b, step1, step2) ==
    LET a1 == step1[1]
        b1 == step1[2]
        a2 == step2[1]
        b2 == step2[2]
        figure == At(b, a1, b1)
    IN  IF figure = None THEN FALSE
        ELSE IF ~IsInstance(b.figs[figure], {"CheckersFigure", "Bishop"}) THEN FALSE
        ELSE LET possible_moves == get_possible_moves(b.figs[figure])
             IN  IF IsInstance(b.figs[figure], {"Bishop"})
                 THEN <<a2, b2>> \in possible_moves
                 ELSE \/ /\ Abs(a2 - a1) = 2
                         /\ Abs(b2 - b1) = 2
                         /\ ~Truthy(is_path_clear(b, a1, b1, a2, b2))
                      \/ /\ <<a2, b2>> \in possible_moves
                         /\ Truthy(is_path_clear(b, a1, b1, a2, b2))

check_move(b, step1, step2) ==
    IF b.cls = "CheckersBoard" THEN CheckersBoard_check_move(b, step1, step2)
    ELSE Board_check_move(b, step1, step2)

\* the classes whose instance on the target cell make_move reports as captured
CapturedKinds ==
    {"Pawn", "Rook", "Knight", "Bishop", "King", "Queen", "Ghost", "Snake", "CheckersFigure"}

\* make_move raises AttributeError at "figure.position = ..." when the source is empty
make_move_raises(b, step1, step2) == At(b, step1[1], step1[2]) = None

\* a faulty Board.make_move that leaves the moved piece on its source cell too
Board_make_move_keeps_source(b, step1, step2) ==
    LET a1 == step1[1]
        b1 == step1[2]
        a2 == step2[1]
        b2 == step2[2]
        figure == At(b, a1, b1)
        b1_ == SetAt(b, a2, b2, figure)
    IN  IF figure = None THEN b1_
        ELSE save_state([b1_ EXCEPT !.figs[figure].position = <<a2, b2>>])

\* Board.make_move; with an empty source cell, the board as the exception leaves it
Board_make_move(b, step1, step2) ==
    LET a1 == step1[1]
        b1 == step1[2]
        a2 == step2[1]
        b2 == step2[2]
        figure == At(b, a1, b1)
        target == At(b, a2, b2)
        snake_kills == /\ target # None
                       /\ IsInstance(b.figs[target], CapturedKinds)
                       /\ figure # None
                       /\ IsInstance(b.figs[figure], {"Snake"})
        b0 == IF snake_kills THEN [b EXCEPT !.figs[figure].kill = TRUE] ELSE b
        b1_ == SetAt(b0, a2, b2, figure)
    IN  IF figure = None THEN b1_
        ELSE save_state(SetAt([b1_ EXCEPT !.figs[figure].position = <<a2, b2>>],
                              a1, b1, None))

\* "for row in rows: self.field[row][b1 + sign * col] = None; col += 1"
RECURSIVE ClearAlong(_, _, _, _, _)
ClearAlong(b, rowseq, b1, sign, col) ==
    IF rowseq = << >> THEN b
    ELSE ClearAlong(SetAt(b, Head(rowseq), b1 + sign * col, None),
                    Tail(rowseq), b1, sign, col + 1)

\* the removal of the pieces a flying piece (Bishop) passed over
BishopCapture(b, a1, b1, a2, b2) ==
    IF a1 < a2 /\ b1 < b2 THEN ClearAlong(b, Range(a1 + 1, a2), b1, 1, 1)
    ELSE IF a1 > a2 /\ b1 < b2 THEN ClearAlong(b, Range(a1 + 1, a2), b1, -1, 1)
    ELSE IF a1 < a2 /\ b1 > b2 THEN ClearAlong(b, RangeDown(a1 + 1, a2), b1, 1, 1)
    ELSE IF a1 < a2 /\ b1 < b2 THEN ClearAlong(b, RangeDown(a1 + 1, a2), b1, -1, 1)
    ELSE b

\* a faulty CheckersBoard.make_move that leaves a man that reached the last row a man
CheckersBoard_make_move_no_promotion(b, step1, step2) ==
    LET a1 == step1[1]
        b1 == step1[2]
        a2 == step2[1]
        b2 == step2[2]
        figure == At(b, a1, b1)
        captured ==
            IF ~Truthy(is_path_clear(b, a1, b1, a2, b2)) /\ figure # None
            THEN IF IsInstance(b.figs[figure], {"CheckersFigure"})
                 THEN SetAt([b EXCEPT !.figs[figure].kill = TRUE],
                            (a1 + a2) \div 2, (b1 + b2) \div 2, None)
                 ELSE IF IsInstance(b.figs[figure], {"Bishop"})
                 THEN [BishopCapture(b, a1, b1, a2, b2) EXCEPT !.figs[figure].kill = TRUE]
                 ELSE b
            ELSE b
        placed == SetAt(captured, a2, b2, figure)
    IN  IF figure = None THEN placed
        ELSE SetAt([placed EXCEPT !.figs[figure].position = <<a2, b2>>], a1, b1, None)

\* CheckersBoard.make_move (it does not call save_state); with an empty source
\* cell, the board as the AttributeError leaves it
CheckersBoard_make_move(b, step1, step2) ==
    LET a1 == step1[1]
        b1 == step1[2]
        a2 == step2[1]
        b2 == step2[2]
        figure == At(b, a1, b1)
        captured ==
            IF ~Truthy(is_path_clear(b, a1, b1, a2, b2)) /\ figure # None
            THEN IF IsInstance(b.figs[figure], {"CheckersFigure"})
                 THEN SetAt([b EXCEPT !.figs[figure].kill = TRUE],
                            (a1 + a2) \div 2, (b1 + b2) \div 2, None)
                 ELSE IF IsInstance(b.figs[figure], {"Bishop"})
                 THEN [BishopCapture(b, a1, b1, a2, b2) EXCEPT !.figs[figure].kill = TRUE]
                 ELSE b
            ELSE b
        placed == SetAt(captured, a2, b2, figure)
    IN  IF figure = None THEN placed
        ELSE LET moved == SetAt([placed EXCEPT !.figs[figure].position = <<a2, b2>>],
                                a1, b1, None)
                 color == b.figs[figure].color
             IN  IF (color = "white" /\ a2 = 0) \/ (color = "black" /\ a2 = 7)
                 THEN SetAt([moved EXCEPT
                                !.figs = Append(moved.figs, Figure("Bishop", color, <<a2, b2>>))],
                            a2, b2, Len(moved.figs) + 1)
                 ELSE moved

make_move(b, step1, step2) ==
    IF b.cls = "CheckersBoard" THEN CheckersBoard_make_move(b, step1, step2)
    ELSE Board_make_move(b, step1, step2)

\* the row castling is played on: the code uses row 0 for white and row 7 for black
RockRow(pl_color) == IF pl_color = "white" THEN 0 ELSE 7

if_rock_possible(b, pl_color) ==
    LET h == RockRow(pl_color)
        king == At(b, h, 4)
        rook == At(b, h, 7)
    IN  /\ king # None
        /\ IsInstance(b.figs[king], {"King"})
        /\ b.figs[king].color = pl_color
        /\ rook # None
        /\ IsInstance(b.figs[rook], {"Rook"})
        /\ b.figs[rook].color = pl_color
        /\ Truthy(is_path_clear(b, h, 4, h, 7))

\* rock moves the two cells' contents, whatever they are; no position is updated
\* and no snapshot is saved
rock(b, pl_color) ==
    LET h == RockRow(pl_color)
        b1 == SetAt(b, h, 6, At(b, h, 4))
        b2 == SetAt(b1, h, 4, None)
        b3 == SetAt(b2, h, 5, At(b2, h, 7))
    IN  IF pl_color \in {"white", "black"} THEN SetAt(b3, h, 7, None) ELSE b

\* the cells holding a figure of that colour that is an instance of the classes
CellsOf(b, classes, color) ==
    {c \in Cells : LET fig == At(b, c[1], c[2])
                   IN  /\ fig # None
                       /\ IsInstance(b.figs[fig], classes)
                       /\ b.figs[fig].color = color}

\* the cells holding an instance of King (a King or a Snake) of that colour
KingCells(b, color) == CellsOf(b, {"King"}, color)

\* the scan is row-major and keeps the last King it sees
KingPosition(b, color) ==
    LET kings == KingCells(b, color)
    IN  CHOOSE c \in kings : \A d \in kings : d[1] * Size + d[2] <= c[1] * Size + c[2]

AttackKinds == {"Pawn", "Rook", "Bishop", "Knight", "King", "Queen"}

\* the cells of the pieces of that colour that is_game_over looks at
Attackers(b, color) == CellsOf(b, AttackKinds, color)

\* the cell pairs that the loop of is_game_over hands to is_path_clear for the
\* king of that colour: every opposing piece it looks at, and the king position
PathQueries(b, color) ==
    {<<a, KingPosition(b, color)>> : a \in Attackers(b, Other(color))}

\* potential_risks_for_<color>: the moves of the opposing pieces that see its king
PotentialRisks(b, color) ==
    LET king == KingPosition(b, color)
    IN  UNION {get_possible_moves(b.figs[At(b, c[1], c[2])]) :
                  c \in {a \in Attackers(b, Other(color)) :
                            Truthy(is_path_clear(b, a[1], a[2], king[1], king[2]))}}

\* "<color>_king_position[0]" with the position None raises TypeError
Board_is_game_over_raises(b) ==
    \E color \in {"black", "white"} :
        KingCells(b, color) = {} /\ Attackers(b, Other(color)) # {}

\* lines 589-601 for one colour: "check" when the king's cell is in its risks,
\* and then "over" when every move of the king is in them too
KingStatus(b, color) ==
    IF KingCells(b, color) = {} THEN "safe"
    ELSE LET king == KingPosition(b, color)
             risks == PotentialRisks(b, color)
         IN  IF king \notin risks THEN "safe"
             ELSE IF get_possible_moves(b.figs[At(b, king[1], king[2])]) \subseteq risks
             THEN "over" ELSE "check"

\* Board.is_game_over where it does not raise: black is looked at first, and a
\* black king in check decides the answer
Board_is_game_over(b) ==
    LET black == KingStatus(b, "black")
    IN  IF black # "safe" THEN black = "over"
        ELSE KingStatus(b, "white") = "over"

CheckersBoard_is_game_over(b) ==
    LET men(color) == CellsOf(b, {"CheckersFigure"}, color)
        canMove == \E c \in men("white") \cup men("black") :
                      \E target \in get_possible_moves(b.figs[At(b, c[1], c[2])]) :
                          CheckersBoard_check_move(b, c, target)
    IN  IF canMove THEN FALSE ELSE ~(men("black") # {} /\ men("white") # {})

is_game_over_raises(b) ==
    IF b.cls = "CheckersBoard" THEN FALSE ELSE Board_is_game_over_raises(b)

is_game_over(b) ==
    IF b.cls = "CheckersBoard" THEN CheckersBoard_is_game_over(b) ELSE Board_is_game_over(b)

-----------------------------------------------------------------------------
(* Construction: setup_board places the figures, in the order of the code   *)

Place(cell, kind, color, position) ==
    [cell |-> cell, fig |-> Figure(kind, color, position)]

BackRow == <<"Rook", "Knight", "Bishop", "Queen", "King", "Bishop", "Knight", "Rook">>

Board_setup_board ==
    [i \in 1 .. 2 * Size |->
        LET col == (i - 1) \div 2
        IN  IF i % 2 = 1 THEN Place(<<1, col>>, "Pawn", "black", <<1, col>>)
            ELSE Place(<<6, col>>, "Pawn", "white", <<6, col>>)]
    \o
    [i \in 1 .. 2 * Size |->
        LET col == (i - 1) \div 2
        IN  IF i % 2 = 1 THEN Place(<<0, col>>, BackRow[col + 1], "black", <<0, col>>)
            ELSE Place(<<7, col>>, BackRow[col + 1], "white", <<7, col>>)]

\* the white men of row 7 are created with the position (6, col)
CheckersBoard_setup_board ==
    [i \in 1 .. 3 * Size |->
        LET col == (i - 1) \div 3
            k == (i - 1) % 3
        IN  IF col % 2 # 0
            THEN CASE k = 0 -> Place(<<0, col>>, "CheckersFigure", "black", <<0, col>>)
                   [] k = 1 -> Place(<<2, col>>, "CheckersFigure", "black", <<2, col>>)
                   [] k = 2 -> Place(<<6, col>>, "CheckersFigure", "white", <<6, col>>)
            ELSE CASE k = 0 -> Place(<<7, col>>, "CheckersFigure", "white", <<6, col>>)
                   [] k = 1 -> Place(<<1, col>>, "CheckersFigure", "black", <<1, col>>)
                   [] k = 2 -> Place(<<5, col>>, "CheckersFigure", "white", <<5, col>>)]

ExtendedBoard_setup_board ==
    Board_setup_board \o
    << Place(<<5, 2>>, "CheckersFigure", "white", <<5, 2>>),
       Place(<<5, 5>>, "CheckersFigure", "white", <<5, 5>>),
       Place(<<2, 2>>, "CheckersFigure", "black", <<2, 2>>),
       Place(<<2, 5>>, "CheckersFigure", "black", <<2, 5>>),
       Place(<<5, 1>>, "Ghost", "white", <<5, 1>>),
       Place(<<5, 6>>, "Ghost", "white", <<5, 6>>),
       Place(<<2, 1>>, "Ghost", "black", <<2, 1>>),
       Place(<<2, 6>>, "Ghost", "black", <<2, 6>>),
       Place(<<5, 0>>, "Snake", "white", <<5, 0>>),
       Place(<<5, 7>>, "Snake", "white", <<5, 7>>),
       Place(<<2, 0>>, "Snake", "black", <<2, 0>>),
       Place(<<2, 7>>, "Snake", "black", <<2, 7>>) >>

setup_board(class) ==
    CASE class = "Board" -> Board_setup_board
      [] class = "CheckersBoard" -> CheckersBoard_setup_board
      [] class = "ExtendedBoard" -> ExtendedBoard_setup_board

\* the grid after the placements: each cell holds the last figure placed on it
PlacedGrid(places) ==
    [r \in Idx |-> [c \in Idx |->
        LET on == {i \in 1 .. Len(places) : places[i].cell = <<r, c>>}
        IN  IF on = {} THEN None ELSE SetMax(on)]]

\* Board.__init__ on a list of placements: a fresh grid, the figures, save_state
BoardWith(class, places) ==
    save_state([cls |-> class,
                rows |-> [id \in 1 .. Size |-> PlacedGrid(places)[id - 1]],
                field |-> [r \in Idx |-> r + 1],
                history |-> << >>,
                figs |-> [i \in 1 .. Len(places) |-> places[i].fig]])

NewBoard(class) == BoardWith(class, setup_board(class))

-----------------------------------------------------------------------------
(* Game: the state of the controller as a record, and one loop iteration of *)
(* Game.play for each way through its body.                                 *)

TheGame ==
    [b |-> TheBoard, current_player |-> current_player, game_over |-> game_over,
     moves |-> moves, is_rock |-> is_rock, is_chess |-> is_chess,
     move |-> move, x |-> x, y |-> y, out |-> out, fault |-> fault]

\* the script's choice of game: Game(True), CheckersGame(False), ExtendedGame(True)
NewGame(class) ==
    [b |-> NewBoard(class), current_player |-> "white", game_over |-> FALSE,
     moves |-> << >>, is_rock |-> FALSE, is_chess |-> (class # "CheckersBoard"),
     move |-> << >>, x |-> Unbound, y |-> Unbound, out |-> "", fault |-> NoFault]

\* A character of the move input: a column letter A-H (upper or lower case) with
\* its index, a row digit 1-8 with its index, or any other character.
Letter(col) == <<"letter", col>>

Digit(row) == <<"digit", row>>

BadChar == <<"other", 0>>

\* the inner loop over the characters of one token
RECURSIVE ParseCoords(_, _)
ParseCoords(g, coords) ==
    IF coords = << >> THEN g
    ELSE LET coord == Head(coords)
         IN  ParseCoords(
                 IF coord[1] = "letter" THEN [g EXCEPT !.y = coord[2]]
                 ELSE IF coord[1] = "digit" THEN [g EXCEPT !.x = coord[2]]
                 ELSE [g EXCEPT !.moves = << >>, !.out = "wrong coordinates"],
                 Tail(coords))

\* the loop over the tokens: "self.moves.append((x, y))" raises UnboundLocalError
\* while x or y has never been assigned
RECURSIVE ParseMove(_, _)
ParseMove(g, steps) ==
    IF steps = << >> THEN g
    ELSE LET p == ParseCoords(g, Head(steps))
         IN  IF p.x = Unbound \/ p.y = Unbound
             THEN [p EXCEPT !.fault = "UnboundLocalError"]
             ELSE ParseMove([p EXCEPT !.moves = Append(p.moves, <<p.x, p.y>>)], Tail(steps))

\* a faulty ApplyMoves that passes the turn whatever check_move answers
ApplyMoves_passes_turn(g) ==
    IF Len(g.moves) < 2 THEN [g EXCEPT !.fault = "IndexError"]
    ELSE [g EXCEPT !.current_player = Other(g.current_player),
                   !.moves = << >>,
                   !.out = IF check_move(g.b, g.moves[1], g.moves[2])
                           THEN "moved" ELSE "invalid move"]

\* a faulty ApplyMoves that leaves the chain flag set when the player continues
ApplyMoves_keeps_flag(g) ==
    IF Len(g.moves) < 2 THEN [g EXCEPT !.fault = "IndexError"]
    ELSE LET step1 == g.moves[1]
             step2 == g.moves[2]
         IN  IF check_move(g.b, step1, step2)
             THEN LET made == make_move(g.b, step1, step2)
                      moved == At(made, step2[1], step2[2])
                  IN  IF make_move_raises(g.b, step1, step2)
                      THEN [g EXCEPT !.b = made, !.fault = "AttributeError"]
                      ELSE IF moved = None
                      THEN [g EXCEPT !.b = made, !.fault = "AttributeError"]
                      ELSE IF ~made.figs[moved].kill
                      THEN [g EXCEPT !.b = made,
                                     !.current_player = Other(g.current_player),
                                     !.moves = << >>,
                                     !.out = "moved"]
                      ELSE [g EXCEPT !.b = made, !.moves = << >>, !.out = "continues"]
             ELSE [g EXCEPT !.moves = << >>, !.out = "invalid move"]

\* lines 897-908: validate self.moves[0], self.moves[1], apply, pass the turn
ApplyMoves(g) ==
    IF Len(g.moves) < 2 THEN [g EXCEPT !.fault = "IndexError"]
    ELSE LET step1 == g.moves[1]
             step2 == g.moves[2]
         IN  IF check_move(g.b, step1, step2)
             THEN LET made == make_move(g.b, step1, step2)
                      moved == At(made, step2[1], step2[2])
                  IN  IF make_move_raises(g.b, step1, step2)
                      THEN [g EXCEPT !.b = made, !.fault = "AttributeError"]
                      \* "self.board.field[..][..].kill" on a cell the move left empty
                      ELSE IF moved = None
                      THEN [g EXCEPT !.b = made, !.fault = "AttributeError"]
                      ELSE IF ~made.figs[moved].kill
                      THEN [g EXCEPT !.b = [made EXCEPT !.figs[moved].kill = FALSE],
                                     !.current_player = Other(g.current_player),
                                     !.moves = << >>,
                                     !.out = "moved"]
                      ELSE [g EXCEPT !.b = [made EXCEPT !.figs[moved].kill = FALSE],
                                     !.moves = << >>,
                                     !.out = "continues"]
             ELSE [g EXCEPT !.moves = << >>, !.out = "invalid move"]

\* the loop iteration may start: the process is alive and the loop not left
Running(g) == g.fault = NoFault /\ ~g.game_over

\* a faulty loop body that offers castling, undo and move without the game-over test
Playing_skips_game_over_test(g) == Running(g) /\ ~is_game_over_raises(g.b)

\* the iteration gets past the game-over test
Playing(g) == Running(g) /\ ~is_game_over_raises(g.b) /\ ~is_game_over(g.b)

\* the iteration in which the move input is read (castling and undo declined
\* or not offered)
PlayMove(g, typed) ==
    LET p == ParseMove([g EXCEPT !.move = typed], typed)
        q == IF p.fault # NoFault THEN p ELSE ApplyMoves(p)
    IN  IF q.fault # NoFault THEN q ELSE [q EXCEPT !.is_rock = FALSE]

\* the iteration in which the undo offer is accepted ("continue")
PlayUndo(g) ==
    [g EXCEPT !.out = undo_move_message(g.b),
              !.b = undo_move(g.b),
              !.current_player = Other(g.current_player)]

\* the iteration in which the castling offer is accepted
PlayRock(g) ==
    [g EXCEPT !.b = rock(g.b, g.current_player),
              !.current_player = Other(g.current_player),
              !.moves = << >>,
              !.is_rock = FALSE,
              !.out = "castled"]

\* the iteration in which the board reports the end of the game
PlayGameOver(g) == [g EXCEPT !.game_over = TRUE, !.is_rock = FALSE, !.out = "game over"]

\* the iteration in which is_game_over raises
PlayGameOverRaises(g) == [g EXCEPT !.fault = "TypeError"]

-----------------------------------------------------------------------------
(* Bounds of the exploration and the inputs the players type *)

\* loop iterations explored from a newly constructed game
MaxCycles == 4

\* loop iterations explored after the recorded game CastleScript
ScriptCycles == 2

\* the cells the players name in their move input, per kind of game
InputCells(class) ==
    IF class = "CheckersBoard"
    THEN {<<6, 1>>, <<5, 2>>, <<4, 3>>, <<2, 5>>, <<3, 4>>}
    ELSE {<<0, 3>>, <<0, 4>>, <<1, 4>>, <<2, 4>>}

\* the cells the players mistype
MistypedCells(class) ==
    IF class = "CheckersBoard" THEN {<<4, 3>>} ELSE {<<0, 3>>}

\* a cell as the player types it: the column letter, then the row digit
Token(cell) == <<Letter(cell[2]), Digit(cell[1])>>

\* the same token with one character mistyped
BadTokens(cell) == {<<Letter(cell[2]), BadChar>>, <<BadChar, Digit(cell[1])>>}

WellFormedInputs(class) ==
    {<<Token(c1), Token(c2)>> : c1 \in InputCells(class), c2 \in InputCells(class)}

\* inputs with a token that holds a character that is neither letter nor digit
MalformedInputs(class) ==
    UNION {{<<t, Token(c2)>> : t \in BadTokens(c1)} \cup {<<Token(c2), t>> : t \in BadTokens(c1)} :
              <<c1, c2>> \in MistypedCells(class) \X InputCells(class)}

\* inputs of fewer than two tokens
ShortInputs(class) == {<< >>} \cup {<<Token(c)>> : c \in MistypedCells(class)}

Inputs(class) == WellFormedInputs(class) \cup MalformedInputs(class) \cup ShortInputs(class)

HasBadChar(typed) ==
    \E i \in 1 .. Len(typed) : \E j \in 1 .. Len(typed[i]) : typed[i][j] = BadChar

\* A recorded chess game of 13 accepted moves, after which black (whose turn it
\* is) is offered castling: the black king has walked to (7,4), the black rook
\* to (7,7), and the white bishop and knight have left (7,5) and (7,6).
CastleScript ==
    << <<<<7, 4>>, <<6, 3>>>>, <<<<0, 7>>, <<1, 7>>>>, <<<<1, 7>>, <<6, 7>>>>,
       <<<<6, 7>>, <<7, 7>>>>, <<<<7, 5>>, <<6, 6>>>>, <<<<7, 6>>, <<5, 5>>>>,
       <<<<0, 4>>, <<1, 4>>>>, <<<<1, 4>>, <<2, 4>>>>, <<<<2, 4>>, <<3, 4>>>>,
       <<<<3, 4>>, <<4, 4>>>>, <<<<4, 4>>, <<5, 4>>>>, <<<<5, 4>>, <<6, 4>>>>,
       <<<<6, 4>>, <<7, 4>>>> >>

\* A recorded extended game of 4 accepted moves, after which the board reports
\* the end of the game: the black snake of (2,0) has walked to (6,3).
GameOverScript ==
    << <<<<2, 0>>, <<3, 0>>>>, <<<<3, 0>>, <<4, 1>>>>, <<<<4, 1>>, <<5, 2>>>>,
       <<<<5, 2>>, <<6, 3>>>> >>

Scripts ==
    {[class |-> "Board", script |-> CastleScript],
     [class |-> "ExtendedBoard", script |-> GameOverScript]}

\* the game after the moves of a script were typed in, one per loop iteration;
\* a script the program would not have played through ends in fault "script"
RECURSIVE Replay(_, _)
Replay(g, script) ==
    IF script = << >> THEN g
    ELSE LET played == PlayMove(g, <<Token(Head(script)[1]), Token(Head(script)[2])>>)
         IN  IF Playing(g) /\ played.fault = NoFault /\ played.out \in {"moved", "continues"}
             THEN Replay(played, Tail(script))
             ELSE [g EXCEPT !.fault = "script"]

-----------------------------------------------------------------------------
(* The program: the choice of game, then Game.play *)

SetGame(g) ==
    /\ cls' = g.b.cls
    /\ rows' = g.b.rows
    /\ field' = g.b.field
    /\ history' = g.b.history
    /\ figs' = g.b.figs
    /\ current_player' = g.current_player
    /\ game_over' = g.game_over
    /\ moves' = g.moves
    /\ is_rock' = g.is_rock
    /\ is_chess' = g.is_chess
    /\ move' = g.move
    /\ x' = g.x
    /\ y' = g.y
    /\ out' = g.out
    /\ fault' = g.fault

\* the board's fields after a method that mutates the board
SetBoard(b) ==
    /\ cls' = b.cls
    /\ rows' = b.rows
    /\ field' = b.field
    /\ history' = b.history
    /\ figs' = b.figs

IsGame(g) ==
    /\ cls = g.b.cls
    /\ rows = g.b.rows
    /\ field = g.b.field
    /\ history = g.b.history
    /\ figs = g.b.figs
    /\ current_player = g.current_player
    /\ game_over = g.game_over
    /\ moves = g.moves
    /\ is_rock = g.is_rock
    /\ is_chess = g.is_chess
    /\ move = g.move
    /\ x = g.x
    /\ y = g.y
    /\ out = g.out
    /\ fault = g.fault

NoCall == <<"none">>

NoRet == "none"

\* a game as the script's three branches construct it
InitNew ==
    /\ \E class \in {"Board", "CheckersBoard", "ExtendedBoard"} : IsGame(NewGame(class))
    /\ fuel = MaxCycles
    /\ log = << >>
    /\ call = NoCall
    /\ ret = NoRet

\* a game that a recorded script has led to
InitScript ==
    /\ \E s \in Scripts :
          /\ IsGame(Replay(NewGame(s.class), s.script))
          /\ log = [i \in 1 .. Len(s.script) |-> "m"]
    /\ fault = NoFault
    /\ fuel = ScriptCycles
    /\ call = NoCall
    /\ ret = NoRet

Init == InitNew \/ InitScript

GameOver ==
    /\ fuel > 0
    /\ Running(TheGame)
    /\ ~is_game_over_raises(TheBoard)
    /\ is_game_over(TheBoard)
    /\ SetGame(PlayGameOver(TheGame))
    /\ fuel' = fuel - 1
    /\ UNCHANGED <<log, call, ret>>

GameOverRaises ==
    /\ fuel > 0
    /\ Running(TheGame)
    /\ is_game_over_raises(TheBoard)
    /\ SetGame(PlayGameOverRaises(TheGame))
    /\ fuel' = fuel - 1
    /\ UNCHANGED <<log, call, ret>>

Castle ==
    /\ fuel > 0
    /\ Playing(TheGame)
    /\ if_rock_possible(TheBoard, current_player)
    /\ SetGame(PlayRock(TheGame))
    /\ fuel' = fuel - 1
    /\ log' = Append(log, "r")
    /\ UNCHANGED <<call, ret>>

Undo ==
    /\ fuel > 0
    /\ Playing(TheGame)
    /\ is_chess
    /\ SetGame(PlayUndo(TheGame))
    /\ fuel' = fuel - 1
    /\ log' = Append(log, "u")
    /\ UNCHANGED <<call, ret>>

Move ==
    /\ fuel > 0
    /\ Playing(TheGame)
    /\ \E typed \in Inputs(cls) :
          LET g == PlayMove(TheGame, typed)
          IN  /\ SetGame(g)
              /\ log' = IF g.fault = NoFault /\ g.out \in {"moved", "continues"}
                        THEN Append(log, "m") ELSE log
    /\ fuel' = fuel - 1
    /\ UNCHANGED <<call, ret>>

Next == GameOver \/ GameOverRaises \/ Castle \/ Undo \/ Move

Spec == Init /\ [][Next]_vars

-----------------------------------------------------------------------------
(* The Board methods called on positions of a few pieces: a piece on        *)
(* MoverCell, whose moves are asked about, and the pieces around it.        *)

Colors == {"white", "black"}

MoverCell == <<3, 2>>

\* the most pieces drawn in the way of a sliding piece
MaxBlockers == 2

\* the most pieces drawn beside the two kings
MaxExtras == 2

\* a piece standing on its cell, its stored position being the cell
Piece(kind, color, cell) == Place(cell, kind, color, cell)

\* the sequences of at most n pieces out of options, on distinct cells, in the
\* row-major order of their cells
RECURSIVE Arrangements(_, _)
Arrangements(options, n) ==
    IF n = 0 THEN {<< >>}
    ELSE LET shorter == Arrangements(options, n - 1)
             last(a) == a[Len(a)].cell
         IN  shorter \cup
             {Append(a, p) : <<a, p>> \in
                 {ap \in shorter \X options :
                     \/ ap[1] = << >>
                     \/ last(ap[1])[1] * Size + last(ap[1])[2]
                           < ap[2].cell[1] * Size + ap[2].cell[2]}}

SlidingKinds == {"Rook", "Bishop", "Queen", "King"}

\* cells on the row, the column and a diagonal of MoverCell
BlockerCells == {<<3, 3>>, <<3, 4>>, <<4, 2>>, <<5, 2>>, <<4, 3>>, <<5, 4>>}

BlockerOptions ==
    {Piece("Pawn", "black", c) : c \in BlockerCells}
        \cup {Piece("Knight", "white", c) : c \in BlockerCells}

\* a sliding piece and the pieces in its way
SliderPositions ==
    {<<Piece(k, c, MoverCell)>> \o a :
        <<k, c, a>> \in SlidingKinds \X Colors \X Arrangements(BlockerOptions, MaxBlockers)}

\* the kinds of piece that a board of the class can hold anywhere
KindsOn(class) ==
    IF class = "ExtendedBoard" THEN ChessKinds ELSE ChessKinds \ {"Ghost", "Snake"}

\* the cells diagonally and straight before and behind MoverCell
PawnNeighbours ==
    {<<MoverCell[1] + dr, MoverCell[2] + dc>> : <<dr, dc>> \in {-1, 1} \X {-1, 0, 1}}

\* the men of an extended board never leave the cells setup_board puts them on
HomeMen ==
    {p \in SeqToSet(ExtendedBoard_setup_board) : p.fig.kind = "CheckersFigure"}

NeighbourOptions(class) ==
    {Piece(k, c, cell) : <<k, c, cell>> \in KindsOn(class) \X Colors \X PawnNeighbours}
        \cup (IF class = "ExtendedBoard"
              THEN {p \in HomeMen : p.cell \in PawnNeighbours} ELSE {})

\* a pawn and one piece next to it
PawnPositions(class) ==
    {<<Piece("Pawn", c, MoverCell), p>> : <<c, p>> \in Colors \X NeighbourOptions(class)}

\* the kinds that leap: the Knight, and on an extended board the Ghost
LeaperKinds(class) == IF class = "ExtendedBoard" THEN {"Knight", "Ghost"} ELSE {"Knight"}

\* a leaping piece and the pieces around it
LeaperPositions(class) ==
    {<<Piece(k, c, MoverCell)>> \o a :
        <<k, c, a>> \in LeaperKinds(class) \X Colors \X Arrangements(BlockerOptions, MaxBlockers)}

\* the kinds tried on the king's cell and on the corner cell of a castling row
KingCellKinds(class) ==
    IF class = "ExtendedBoard" THEN {"King", "Snake", "Queen"} ELSE {"King", "Queen"}

CornerKinds == {"Rook", "Bishop"}

\* a piece on (h,4) of a castling row h, with or without a piece on the corner
\* (h,7) and pieces on the two cells between them
CastlePositions(class) ==
    UNION {{<<Piece(k, kc, <<h, 4>>)>> \o corner \o mid :
               <<k, kc, corner, mid>> \in
                   KingCellKinds(class) \X Colors
                   \X ({<< >>} \cup {<<Piece(rk, rc, <<h, 7>>)>> :
                                         <<rk, rc>> \in CornerKinds \X Colors})
                   \X Arrangements({Piece("Pawn", "black", <<h, 5>>),
                                    Piece("Knight", "white", <<h, 6>>)}, 2)} :
           h \in {RockRow(c) : c \in Colors}}

\* the cells a man of a CheckersBoard is drawn on: two from which a white man
\* reaches row 0 by a jump or by a step, two from which a black man reaches row 7
CheckersMoverCells == {<<2, 3>>, <<1, 2>>, <<5, 4>>, <<6, 5>>}

\* the in-board cells one or two diagonal steps from a cell
DiagonalCells(m) ==
    {c \in Cells : Abs(c[1] - m[1]) = Abs(c[2] - m[2]) /\ Abs(c[1] - m[1]) \in {1, 2}}

\* a man stands on a cell it can have reached: make_move leaves no white man on
\* row 0 and no black man on row 7
ManCanStand(color, cell) ==
    ~((color = "white" /\ cell[1] = 0) \/ (color = "black" /\ cell[1] = Size - 1))

\* a man on a CheckersBoard and the men one or two diagonal steps from it
CheckersPositions ==
    UNION {{<<Piece("CheckersFigure", c, m)>> \o a :
               <<c, a>> \in Colors \X
                   Arrangements({Piece("CheckersFigure", oc, cell) :
                                    <<oc, cell>> \in {p \in Colors \X DiagonalCells(m) :
                                                         ManCanStand(p[1], p[2])}},
                                MaxBlockers)} :
           m \in CheckersMoverCells}

\* a flying piece (the Bishop a promoted man becomes) on a CheckersBoard and the
\* men one or two diagonal steps from it
CheckersBishopPositions ==
    {<<Piece("Bishop", c, MoverCell)>> \o a :
        <<c, a>> \in Colors \X
            Arrangements({Piece("CheckersFigure", oc, cell) :
                             <<oc, cell>> \in {p \in Colors \X DiagonalCells(MoverCell) :
                                                  ManCanStand(p[1], p[2])}},
                         MaxBlockers)}

\* a man of the extended setup on its home cell, alone or with a pawn on a
\* cell diagonally next to it
ExtendedManPositions ==
    {<<p>> \o a :
        <<p, a>> \in {pa \in HomeMen \X Arrangements(
                                  {Piece("Pawn", c, cell) : <<c, cell>> \in Colors \X Cells}, 1) :
                         \A i \in 1 .. Len(pa[2]) :
                             /\ Abs(pa[2][i].cell[1] - pa[1].cell[1]) = 1
                             /\ Abs(pa[2][i].cell[2] - pa[1].cell[2]) = 1}}

BlackKingCells == {<<2, 2>>, <<0, 7>>}

ExtraCells == {<<5, 2>>, <<3, 1>>, <<3, 3>>, <<4, 2>>}

ExtraOptions ==
    {Piece(k, c, cell) : <<k, c, cell>> \in {"Queen", "Rook", "Knight"} \X Colors \X ExtraCells}

\* the two kings and the pieces beside them
KingPositions ==
    {<<Piece("King", "white", MoverCell), Piece("King", "black", kc)>> \o a :
        <<kc, a>> \in BlackKingCells \X Arrangements(ExtraOptions, MaxExtras)}

Positions(class) ==
    IF class = "CheckersBoard" THEN CheckersPositions \cup CheckersBishopPositions
    ELSE SliderPositions \cup PawnPositions(class) \cup KingPositions
            \cup LeaperPositions(class) \cup CastlePositions(class)
            \cup (IF class = "ExtendedBoard" THEN ExtendedManPositions ELSE {})

\* the cells asked about: those on the row, the column and the diagonals of
\* MoverCell, and those a knight's leap away
CallTargets(from) ==
    {c \in Cells \ {from} :
        LET dr == Abs(c[1] - from[1])
            dc == Abs(c[2] - from[2])
        IN  dr = 0 \/ dc = 0 \/ dr = dc \/ {dr, dc} = {1, 2}}

\* the cell of the first piece drawn, the one whose moves are asked about
Mover == figs[1].position

\* a bool as the string that ret holds
Str(v) == IF v THEN "True" ELSE "False"

\* a board of one of the three classes holding a drawn position, no method
\* called yet; one call is made on each
InitBoard ==
    /\ \E class \in {"Board", "ExtendedBoard", "CheckersBoard"} : \E places \in Positions(class) :
          IsGame([NewGame("Board") EXCEPT !.b = BoardWith(class, places),
                                          !.is_chess = (class # "CheckersBoard")])
    /\ fuel = 0
    /\ log = << >>
    /\ call = NoCall
    /\ ret = NoRet

CallCheckMove ==
    /\ call = NoCall
    /\ \E to \in CallTargets(Mover) :
          /\ call' = <<"check_move", Mover, to>>
          /\ ret' = Str(check_move(TheBoard, Mover, to))
    /\ UNCHANGED <<boardVars, gameVars, out, fault, fuel, log>>

CallIsGameOver ==
    /\ call = NoCall
    /\ call' = <<"is_game_over">>
    /\ ret' = IF is_game_over_raises(TheBoard) THEN "TypeError"
              ELSE Str(is_game_over(TheBoard))
    /\ UNCHANGED <<boardVars, gameVars, out, fault, fuel, log>>

\* board.make_move(Mover, to): no legality test is made by the method itself
CallMakeMove ==
    /\ call = NoCall
    /\ \E to \in CallTargets(Mover) :
          /\ call' = <<"make_move", Mover, to>>
          /\ ret' = IF make_move_raises(TheBoard, Mover, to) THEN "AttributeError" ELSE "None"
          /\ SetBoard(make_move(TheBoard, Mover, to))
    /\ UNCHANGED <<gameVars, out, fault, fuel, log>>

\* board.if_rock_possible(pl_color)
CallIfRockPossible ==
    /\ call = NoCall
    /\ \E pl_color \in Colors :
          /\ call' = <<"if_rock_possible", pl_color>>
          /\ ret' = Str(if_rock_possible(TheBoard, pl_color))
    /\ UNCHANGED <<boardVars, gameVars, out, fault, fuel, log>>

\* board.rock(pl_color): the method itself does not ask whether castling is possible
CallRock ==
    /\ call = NoCall
    /\ \E pl_color \in Colors :
          /\ call' = <<"rock", pl_color>>
          /\ ret' = "None"
          /\ SetBoard(rock(TheBoard, pl_color))
    /\ UNCHANGED <<gameVars, out, fault, fuel, log>>

NextBoard ==
    CallCheckMove \/ CallIsGameOver \/ CallMakeMove \/ CallIfRockPossible \/ CallRock

SpecBoard == InitBoard /\ [][NextBoard]_vars

-----------------------------------------------------------------------------
(* One call of get_possible_moves on a pawn of either colour on any cell     *)

\* a Board holding one pawn, its stored position being its cell
InitPawn ==
    /\ \E color \in Colors : \E cell \in Cells :
          IsGame([NewGame("Board") EXCEPT
                     !.b = BoardWith("Board", <<Piece("Pawn", color, cell)>>)])
    /\ fuel = 0
    /\ log = << >>
    /\ call = NoCall
    /\ ret = NoRet

\* figure.get_possible_moves() on that pawn; ret holds the cells of the list
CallGetPossibleMoves ==
    /\ call = NoCall
    /\ call' = <<"get_possible_moves", Mover>>
    /\ ret' = get_possible_moves(figs[1])
    /\ UNCHANGED <<boardVars, gameVars, out, fault, fuel, log>>

NextPawn == CallGetPossibleMoves

SpecPawn == InitPawn /\ [][NextPawn]_vars

-----------------------------------------------------------------------------
(* Properties of Game.play, checked under Spec *)

\* the live grid as cell contents
LiveGrid == GridOf(TheBoard, field)

\* the row lists of the live grid and of the snapshots
FieldRows == {field[r] : r \in Idx}

SnapshotRows(i) == {history[i][r] : r \in Idx}

\* C1: whenever a board operation has returned (construction, make_move, rock,
\* undo_move), on every variant, the piece stored in cell (r,c) has the stored
\* position (r,c).
PositionInvariant ==
    fault = NoFault =>
        \A c \in Cells :
            At(TheBoard, c[1], c[2]) # None => figs[At(TheBoard, c[1], c[2])].position = c

\* C2: after any sequence of make_move and undo_move the live grid shares no
\* row list with a snapshot of history.
SnapshotIndependence ==
    \A i \in 1 .. Len(history) : FieldRows \cap SnapshotRows(i) = {}

\* the log is n moves followed by at least n undos, and nothing else
MovesThenUndos(l) ==
    \E n \in 0 .. Len(l) :
        /\ 2 * n <= Len(l)
        /\ \A i \in 1 .. Len(l) : l[i] = (IF i <= n THEN "m" ELSE "u")

\* C3: on a chess Board, N make_move calls followed by N undo_move calls leave
\* every cell as the initial setup had it and history holding only the initial
\* snapshot; further undo_move calls change neither.
UndoRoundTrip ==
    (cls = "Board" /\ fault = NoFault /\ MovesThenUndos(log)) =>
        /\ LiveGrid = PlacedGrid(Board_setup_board)
        /\ Len(history) = 1
        /\ GridOf(TheBoard, history[1]) = PlacedGrid(Board_setup_board)

\* two moves were made and both were undone
UndoRoundTripReached ==
    cls = "Board" /\ fault = NoFault /\ log = <<"m", "m", "u", "u">>

\* the cell a well-formed token names
CellOf(token) == <<token[2][2], token[1][2]>>

\* the step is the loop iteration of Game.play that reads the move input typed
MoveStep(typed) ==
    /\ move' = typed
    /\ fuel > 0
    /\ fuel' = fuel - 1
    /\ Playing(TheGame)
    /\ TheGame' = PlayMove(TheGame, typed)

\* the board, the turn and the loop are as they were before the step
StateUntouched ==
    /\ fault' = NoFault
    /\ game_over' = game_over
    /\ UNCHANGED <<rows, field, history, figs, current_player>>

\* C4: a well-formed move request that check_move rejects, a request from an
\* empty cell included, raises nothing and leaves the grid, the pieces, the
\* history and current_player unchanged; the same player is asked again.
RejectedMoveUntouched ==
    [][(/\ move' \in WellFormedInputs(cls)
        /\ MoveStep(move')
        /\ ~check_move(TheBoard, CellOf(move'[1]), CellOf(move'[2])))
          => (StateUntouched /\ out' = "invalid move")]_vars

\* a chess request from the empty cell (2,4) was rejected at the first move
RejectedMoveReached ==
    /\ cls = "Board"
    /\ fault = NoFault
    /\ log = << >>
    /\ fuel = MaxCycles - 1
    /\ move = <<Token(<<2, 4>>), Token(<<0, 4>>)>>
    /\ At(TheBoard, 2, 4) = None
    /\ out = "invalid move"
    /\ current_player = "white"

\* C5: a move input with a character that is neither letter nor digit raises
\* nothing, and applies no move: grid, history and current_player are unchanged.
MalformedInputDiscarded ==
    [][(HasBadChar(move') /\ MoveStep(move')) => StateUntouched]_vars

\* the step is the loop iteration in which the undo offer is accepted
UndoStep ==
    /\ fuel > 0
    /\ fuel' = fuel - 1
    /\ Playing(TheGame)
    /\ is_chess
    /\ TheGame' = PlayUndo(TheGame)

\* C6: an undo accepted while history holds only the initial snapshot changes
\* neither the grid, nor the history, nor current_player.
NothingToUndoNoOp ==
    [][(UndoStep /\ Len(history) = 1)
          => UNCHANGED <<rows, field, history, figs, current_player>>]_vars

\* C7: Board.is_game_over raises nothing in a position reached by accepted
\* moves, a position without a king of some colour included.
MissingKingTolerated ==
    (cls # "CheckersBoard" /\ fault = NoFault) => ~Board_is_game_over_raises(TheBoard)

\* the cells on which setup_board of the game's board class placed the pieces of
\* the given kind and colour at the start of the game
StartingCells(kind, color) ==
    {p.cell : p \in {q \in SeqToSet(setup_board(cls)) :
                        q.fig.kind = kind /\ q.fig.color = color}}

\* C13: if_rock_possible(c) holds only if the king of colour c and the rook of
\* colour c of the kingside corner (column 7) stand on their starting cells
\* and the cells between them are empty.
CastlingOnStartingCells ==
    \A c \in {"white", "black"} :
        if_rock_possible(TheBoard, c) =>
            \E k \in StartingCells("King", c) :
                \E r \in {s \in StartingCells("Rook", c) : s[2] = Size - 1} :
                    /\ At(TheBoard, k[1], k[2]) # None
                    /\ figs[At(TheBoard, k[1], k[2])].kind = "King"
                    /\ figs[At(TheBoard, k[1], k[2])].color = c
                    /\ At(TheBoard, r[1], r[2]) # None
                    /\ figs[At(TheBoard, r[1], r[2])].kind = "Rook"
                    /\ figs[At(TheBoard, r[1], r[2])].color = c
                    /\ \A j \in (k[2] + 1) .. (r[2] - 1) : At(TheBoard, k[1], j) = None

\* C18: in checkers, after a jump that left the chain flag set ("continues"),
\* the next move that Game.play applies starts from the cell on which the
\* jumping piece landed.
ChainBindsPiece ==
    [][(/\ cls = "CheckersBoard"
        /\ out = "continues"
        /\ log' = Append(log, "m")
        /\ move' \in WellFormedInputs(cls))
          => CellOf(move'[1]) = <<x, y>>]_vars

\* no piece on the live grid has its chain flag (kill) set
NoChainFlag ==
    \A c \in Cells :
        At(TheBoard, c[1], c[2]) # None => ~figs[At(TheBoard, c[1], c[2])].kill

\* C19: after a move applied by Game.play, current_player is unchanged if the
\* piece that make_move left on the destination has its chain flag set, and is
\* the other colour otherwise; the flag is cleared either way, so while the
\* controller waits for input no piece on the board has its chain flag set.
TurnByChainFlag ==
    /\ (fault = NoFault => NoChainFlag)
    /\ [][/\ (fault' = NoFault) => NoChainFlag'
          /\ (log' = Append(log, "m")) =>
                LET parsed == ParseMove([TheGame EXCEPT !.move = move'], move')
                    made == make_move(TheBoard, parsed.moves[1], parsed.moves[2])
                    dest == At(made, parsed.moves[2][1], parsed.moves[2][2])
                IN  /\ dest # None
                    /\ current_player' = IF made.figs[dest].kill THEN current_player
                                          ELSE Other(current_player)]_vars

\* white has jumped in a checkers game and is asked to move again, and the
\* piece on the cell it landed on has its flag cleared
TurnByChainFlagReached ==
    /\ cls = "CheckersBoard"
    /\ out = "continues"
    /\ fault = NoFault
    /\ current_player = "white"
    /\ log = <<"m">>
    /\ At(TheBoard, x, y) # None
    /\ ~figs[At(TheBoard, x, y)].kill

\* the number of moves of the log that no later undo has taken back; an undo
\* with nothing to undo takes nothing back
RECURSIVE Pending(_)
Pending(l) ==
    IF l = << >> THEN 0
    ELSE LET before == Pending(SubSeq(l, 1, Len(l) - 1))
         IN  IF l[Len(l)] = "m" THEN before + 1 ELSE Max(before - 1, 0)

\* C20: on a chess board, whatever the order of make_move and undo_move calls,
\* each undo_move made while history holds more than one snapshot puts back
\* the grid as it was before the last move not yet undone; so once an undo has
\* taken back the last pending move, the live grid is that of the setup.
UndoRevertsLastMove ==
    (/\ cls # "CheckersBoard"
     /\ fault = NoFault
     /\ log # << >>
     /\ \A i \in 1 .. Len(log) : log[i] \in {"m", "u"}
     /\ log[Len(log)] = "u"
     /\ Pending(log) = 0) => LiveGrid = PlacedGrid(setup_board(cls))

\* C21: Game.play applies a move only when the piece on the source cell has
\* the colour of current_player.
MoveOwnership ==
    [][(log' = Append(log, "m")) =>
          LET parsed == ParseMove([TheGame EXCEPT !.move = move'], move')
              source == parsed.moves[1]
              figure == At(TheBoard, source[1], source[2])
          IN  /\ figure # None
              /\ figs[figure].color = current_player]_vars

\* C22: when Game.play ends the game on a chess board, the player it reports
\* as the loser, current_player, is the colour whose king is in check with
\* every move of that king among its threatened squares.
ReportedLoser ==
    (cls # "CheckersBoard" /\ game_over /\ out = "game over") =>
        KingStatus(TheBoard, current_player) = "over"

\* C23: a cycle of Game.play that starts in a position the board reports as
\* game over applies no castling, undo or move and sets game_over; once
\* game_over is set, the grid, the history and current_player never change.
GameOverTerminal ==
    [][/\ (Running(TheGame) /\ ~is_game_over_raises(TheBoard) /\ is_game_over(TheBoard)) =>
             /\ game_over'
             /\ UNCHANGED <<rows, field, history, figs, current_player, log>>
       /\ game_over => UNCHANGED <<rows, field, history, figs, current_player, game_over>>]_vars

\* the extended game was ended by the board after the four recorded moves
GameOverTerminalReached ==
    /\ cls = "ExtendedBoard"
    /\ game_over
    /\ out = "game over"
    /\ log = <<"m", "m", "m", "m">>

\* C27: in every ExtendedBoard position with the King of a colour on the
\* board, the cell that is_game_over takes as that colour's king position
\* holds the King of that colour, never a Snake.
KingLocated ==
    cls = "ExtendedBoard" =>
        \A color \in {"white", "black"} :
            (\E c \in Cells :
                /\ At(TheBoard, c[1], c[2]) # None
                /\ figs[At(TheBoard, c[1], c[2])].kind = "King"
                /\ figs[At(TheBoard, c[1], c[2])].color = color) =>
                LET king == KingPosition(TheBoard, color)
                IN  /\ figs[At(TheBoard, king[1], king[2])].kind = "King"
                    /\ figs[At(TheBoard, king[1], king[2])].color = color

\* two cells that share a row, a column or a diagonal
Aligned(c, d) == c[1] = d[1] \/ c[2] = d[2] \/ Abs(c[1] - d[1]) = Abs(c[2] - d[2])

\* C29: whenever the game loop runs the game-over test of a chess or extended
\* board, every pair of cells that is_game_over passes to is_path_clear shares
\* a row, a column or a diagonal.
AlignedQueries ==
    (cls # "CheckersBoard" /\ Running(TheGame) /\ ~is_game_over_raises(TheBoard)) =>
        \A color \in {"white", "black"} :
            \A q \in PathQueries(TheBoard, color) : Aligned(q[1], q[2])

-----------------------------------------------------------------------------
(* Properties of the Board methods, checked under SpecBoard *)

\* the piece on a cell of the live grid, or None
OnCell(c) == At(TheBoard, c[1], c[2])

Sign(n) == IF n > 0 THEN 1 ELSE IF n < 0 THEN -1 ELSE 0

\* the cells strictly between two cells of one row, column or diagonal
Between(from, to) ==
    LET dr == to[1] - from[1]
        dc == to[2] - from[2]
    IN  IF dr = 0 \/ dc = 0 \/ Abs(dr) = Abs(dc)
        THEN {<<from[1] + k * Sign(dr), from[2] + k * Sign(dc)>> :
                 k \in 1 .. (Max(Abs(dr), Abs(dc)) - 1)}
        ELSE {}

\* the in-board cells a sliding piece reaches on an empty board
Geometry(kind, from) ==
    {c \in Cells \ {from} :
        LET dr == Abs(c[1] - from[1])
            dc == Abs(c[2] - from[2])
        IN  CASE kind = "Rook" -> dr = 0 \/ dc = 0
              [] kind = "Bishop" -> dr = dc
              [] kind = "Queen" -> dr = 0 \/ dc = 0 \/ dr = dc
              [] kind = "King" -> dr <= 1 /\ dc <= 1}

\* the threatened squares of a colour: the targets of every opposing piece that
\* has a clear line to the king of the colour, standing on cell king
Threatened(color, king) ==
    UNION {get_possible_moves(figs[OnCell(a)]) :
              a \in {c \in Cells : /\ OnCell(c) # None
                                    /\ figs[OnCell(c)].color = Other(color)
                                    /\ Truthy(is_path_clear(TheBoard, c[1], c[2],
                                                            king[1], king[2]))}}

\* the king's cell and every target of the king are threatened
Mated(color) ==
    \E king \in KingCells(TheBoard, color) :
        /\ king \in Threatened(color, king)
        /\ get_possible_moves(figs[OnCell(king)]) \subseteq Threatened(color, king)

\* C8: on a chess board holding one king of each colour, is_game_over returns
\* true exactly when, for at least one colour, the king's cell and every target
\* of the king lie in the colour's threatened squares.
CheckmateHeuristic ==
    (/\ cls = "Board"
     /\ call = <<"is_game_over">>
     /\ \A color \in Colors : Cardinality(KingCells(TheBoard, color)) = 1)
        => ((ret = "True") <=> (\E color \in Colors : Mated(color)))

\* the two cells diagonally ahead of a pawn
ForwardDiagonals(color, from) ==
    LET ahead == IF color = "white" THEN from[1] - 1 ELSE from[1] + 1
    IN  {<<ahead, from[2] - 1>>, <<ahead, from[2] + 1>>}

\* C9: for a pawn on from and a cell to holding a piece of the other colour, of
\* any kind, check_move(from, to) is true iff to is one of the two cells
\* diagonally ahead of the pawn.
PawnCaptureOverride ==
    call[1] = "check_move" =>
        LET from == call[2]
            to == call[3]
        IN  (/\ OnCell(from) # None
             /\ figs[OnCell(from)].kind = "Pawn"
             /\ OnCell(to) # None
             /\ figs[OnCell(to)].color # figs[OnCell(from)].color)
                => ((ret = "True") <=> (to \in ForwardDiagonals(figs[OnCell(from)].color, from)))

\* C10: on a chess or extended Board, for a Rook, Bishop, Queen or King on from, its stored position being
\* from, and a cell to of its geometry, check_move(from, to) is true iff every
\* cell strictly between from and to is empty.
SlidingBlocked ==
    (call[1] = "check_move" /\ cls \in {"Board", "ExtendedBoard"}) =>
        LET from == call[2]
            to == call[3]
        IN  (/\ OnCell(from) # None
             /\ figs[OnCell(from)].kind \in SlidingKinds
             /\ figs[OnCell(from)].position = from
             /\ to \in Geometry(figs[OnCell(from)].kind, from))
                => ((ret = "True") <=> (\A c \in Between(from, to) : OnCell(c) = None))

\* a rook was refused the second cell of its row, the first one being occupied
SlidingBlockedReached ==
    /\ call = <<"check_move", MoverCell, <<3, 4>>>>
    /\ figs[OnCell(MoverCell)].kind = "Rook"
    /\ figs[OnCell(MoverCell)].position = MoverCell
    /\ OnCell(<<3, 3>>) # None
    /\ OnCell(<<3, 4>>) = None
    /\ ret = "False"

\* the in-board cells a leaping piece reaches: a knight's leap, or any cell of the
\* ghost's row or column
LeaperGeometry(kind, from) ==
    {c \in Cells \ {from} :
        LET dr == Abs(c[1] - from[1])
            dc == Abs(c[2] - from[2])
        IN  CASE kind = "Knight" -> {dr, dc} = {1, 2}
              [] kind = "Ghost" -> dr = 0 \/ dc = 0}

\* C11: for a Knight or Ghost on from and a cell to of its geometry,
\* check_move(from, to) is true whatever the other cells hold.
LeapersBypass ==
    call[1] = "check_move" =>
        LET from == call[2]
            to == call[3]
        IN  (/\ OnCell(from) # None
             /\ figs[OnCell(from)].kind \in {"Knight", "Ghost"}
             /\ figs[OnCell(from)].position = from
             /\ to \in LeaperGeometry(figs[OnCell(from)].kind, from))
                => ret = "True"

\* a ghost was allowed the third cell of its row, the two before it occupied
LeapersBypassReached ==
    /\ call = <<"check_move", MoverCell, <<3, 5>>>>
    /\ figs[OnCell(MoverCell)].kind = "Ghost"
    /\ OnCell(<<3, 3>>) # None
    /\ OnCell(<<3, 4>>) # None
    /\ ret = "True"

\* the live grid by cell, and the number of its occupied cells
Grid == [c \in Cells |-> OnCell(c)]

PieceCount == Cardinality({c \in Cells : OnCell(c) # None})

\* the cells of the last snapshot of history
LastSnapshot == GridOf(TheBoard, history[Len(history)])

\* C12: Board.make_move(from, to) with from occupied and to # from leaves the
\* piece of from on to, from empty and every other cell as it was; the piece
\* count drops by one exactly if to was occupied; history grows by one
\* snapshot, whose cells are those of the new live grid.
MakeMoveEffect ==
    [][(call = NoCall /\ call'[1] = "make_move" /\ cls \in {"Board", "ExtendedBoard"}) =>
          LET from == call'[2]
              to == call'[3]
          IN  (Grid[from] # None /\ to # from) =>
                 /\ Grid'[to] = Grid[from]
                 /\ Grid'[from] = None
                 /\ \A c \in Cells \ {from, to} : Grid'[c] = Grid[c]
                 /\ PieceCount' = PieceCount - (IF Grid[to] # None THEN 1 ELSE 0)
                 /\ Len(history') = Len(history) + 1
                 /\ LastSnapshot' = LiveGrid']_vars

\* make_move took the piece standing next to the mover: the first snapshot
\* still shows both, the live grid shows the mover on the taken piece's cell
MakeMoveEffectReached ==
    /\ call = <<"make_move", MoverCell, <<3, 3>>>>
    /\ ret = "None"
    /\ Len(history) = 2
    /\ GridOf(TheBoard, history[1])[3][3] # None
    /\ OnCell(<<3, 3>>) = GridOf(TheBoard, history[1])[MoverCell[1]][MoverCell[2]]
    /\ OnCell(MoverCell) = None

\* the castling row as documented: 0 for white, 7 for black
CastlingRow(c) == IF c = "white" THEN 0 ELSE Size - 1

\* (h,4) holds a King of colour c, (h,7) a Rook of colour c, (h,5) and (h,6) nothing
CastlingReady(c) ==
    LET h == CastlingRow(c)
        king == Grid[<<h, 4>>]
        rook == Grid[<<h, 7>>]
    IN  /\ king # None
        /\ figs[king].kind = "King"
        /\ figs[king].color = c
        /\ rook # None
        /\ figs[rook].kind = "Rook"
        /\ figs[rook].color = c
        /\ Grid[<<h, 5>>] = None
        /\ Grid[<<h, 6>>] = None

\* C14: with h = 0 for white and 7 for black, if_rock_possible(c) is true iff
\* (h,4) holds a King of colour c, (h,7) a Rook of colour c and (h,5), (h,6)
\* are empty; rock(c) then leaves the king on (h,6), the rook on (h,5), (h,4)
\* and (h,7) empty and every other cell as it was.
CastlingContract ==
    [][\A c \in {"white", "black"} :
          LET h == CastlingRow(c)
          IN  /\ (call = NoCall /\ call' = <<"if_rock_possible", c>>) =>
                    (ret' = "True" <=> CastlingReady(c))
              /\ (call = NoCall /\ call' = <<"rock", c>> /\ CastlingReady(c)) =>
                    /\ Grid'[<<h, 6>>] = Grid[<<h, 4>>]
                    /\ Grid'[<<h, 5>>] = Grid[<<h, 7>>]
                    /\ Grid'[<<h, 4>>] = None
                    /\ Grid'[<<h, 7>>] = None
                    /\ \A cell \in Cells \ {<<h, 4>>, <<h, 5>>, <<h, 6>>, <<h, 7>>} :
                          Grid'[cell] = Grid[cell]]_vars

\* C15: on a CheckersBoard, for a man on from and a cell to two rows and two
\* columns away with an occupied cell midway, check_move(from, to) is true, and
\* make_move(from, to) leaves the midway cell and from empty and the mover on
\* to with its chain flag set.
JumpCapture ==
    [][(/\ call = NoCall
        /\ call'[1] \in {"check_move", "make_move"}
        /\ cls = "CheckersBoard") =>
          LET from == call'[2]
              to == call'[3]
              mid == <<(from[1] + to[1]) \div 2, (from[2] + to[2]) \div 2>>
          IN  (/\ Grid[from] # None
               /\ figs[Grid[from]].kind = "CheckersFigure"
               /\ Abs(to[1] - from[1]) = 2
               /\ Abs(to[2] - from[2]) = 2
               /\ Grid[mid] # None) =>
                 IF call'[1] = "check_move" THEN ret' = "True"
                 ELSE /\ Grid'[mid] = None
                      /\ Grid'[from] = None
                      /\ Grid'[to] = Grid[from]
                      /\ figs'[Grid'[to]].kill]_vars

\* the men (CheckersFigure pieces) of a colour on the live grid
MenOf(color) ==
    {c \in Cells : /\ Grid[c] # None
                   /\ figs[Grid[c]].kind = "CheckersFigure"
                   /\ figs[Grid[c]].color = color}

\* C16: CheckersBoard.is_game_over returns true in every position in which a
\* colour has no man left on the board.
NoMenGameOver ==
    (/\ call = <<"is_game_over">>
     /\ cls = "CheckersBoard"
     /\ \E color \in {"white", "black"} : MenOf(color) = {}) => ret = "True"

\* C17: a CheckersBoard.make_move that brings a white man to row 0 or a black
\* man to row 7 leaves on the destination a Bishop of the man's colour whose
\* position is that cell; after the move no white man stands on row 0 and no
\* black man on row 7.
Promotion ==
    [][(call = NoCall /\ call'[1] = "make_move" /\ cls = "CheckersBoard") =>
          LET from == call'[2]
              to == call'[3]
              man == Grid[from]
          IN  /\ (/\ man # None
                  /\ figs[man].kind = "CheckersFigure"
                  /\ to[1] = (IF figs[man].color = "white" THEN 0 ELSE Size - 1)) =>
                     /\ Grid'[to] # None
                     /\ figs'[Grid'[to]].kind = "Bishop"
                     /\ figs'[Grid'[to]].color = figs[man].color
                     /\ figs'[Grid'[to]].position = to
              /\ \A c \in Cells :
                     (Grid'[c] # None /\ figs'[Grid'[c]].kind = "CheckersFigure") =>
                         ~(figs'[Grid'[c]].color = "white" /\ c[1] = 0)
                         /\ ~(figs'[Grid'[c]].color = "black" /\ c[1] = Size - 1)]_vars

\* a white man stepped from (1,2) onto (0,1), where a Bishop now stands
PromotionReached ==
    /\ cls = "CheckersBoard"
    /\ call = <<"make_move", <<1, 2>>, <<0, 1>>>>
    /\ figs[1].kind = "CheckersFigure"
    /\ figs[1].color = "white"
    /\ OnCell(<<0, 1>>) # None
    /\ figs[OnCell(<<0, 1>>)].kind = "Bishop"
    /\ figs[OnCell(<<0, 1>>)].color = "white"

\* C24: on the ExtendedBoard, check_move accepts the step of a man onto an
\* empty in-board cell diagonally before it (row - 1 for white, row + 1 for black).
ExtendedMenMove ==
    (cls = "ExtendedBoard" /\ call[1] = "check_move") =>
        LET from == call[2]
            to == call[3]
        IN  (/\ OnCell(from) # None
             /\ figs[OnCell(from)].kind = "CheckersFigure"
             /\ figs[OnCell(from)].position = from
             /\ to \in ForwardDiagonals(figs[OnCell(from)].color, from)
             /\ OnCell(to) = None) => ret = "True"

\* C25: on a CheckersBoard, every in-board move that check_move accepts has an
\* empty destination cell.
CheckersDestinationEmpty ==
    (cls = "CheckersBoard" /\ call[1] = "check_move" /\ ret = "True") =>
        OnCell(call[3]) = None

\* C26: on a CheckersBoard, every jump of a man that check_move accepts passes
\* over a piece of the opposite colour.
JumpOverOpponent ==
    (cls = "CheckersBoard" /\ call[1] = "check_move" /\ ret = "True") =>
        LET from == call[2]
            to == call[3]
            mid == <<(from[1] + to[1]) \div 2, (from[2] + to[2]) \div 2>>
        IN  (/\ figs[OnCell(from)].kind = "CheckersFigure"
             /\ Abs(to[1] - from[1]) = 2
             /\ Abs(to[2] - from[2]) = 2) =>
                /\ OnCell(mid) # None
                /\ figs[OnCell(mid)].color # figs[OnCell(from)].color

\* C28: on a CheckersBoard, an accepted move of a flying piece (Bishop) along a
\* diagonal with an occupied cell strictly between source and destination
\* leaves every cell strictly between them empty, in each of the four
\* diagonal directions.
FlyingCapture ==
    [][(call = NoCall /\ call'[1] = "make_move" /\ cls = "CheckersBoard") =>
          LET from == call'[2]
              to == call'[3]
          IN  (/\ Grid[from] # None
               /\ figs[Grid[from]].kind = "Bishop"
               /\ Abs(to[1] - from[1]) = Abs(to[2] - from[2])
               /\ check_move(TheBoard, from, to)
               /\ \E c \in Between(from, to) : Grid[c] # None) =>
                  \A c \in Between(from, to) : Grid'[c] = None]_vars

-----------------------------------------------------------------------------
(* Properties of Pawn.get_possible_moves, checked under SpecPawn            *)

\* C30: for a pawn of either colour on any cell, get_possible_moves returns
\* exactly the cell one row forward (row - 1 for white, row + 1 for black),
\* and the cell two rows forward only from row 6 (white) or row 1 (black),
\* those outside the board left out; it returns no cell outside the board.
PawnGeometry ==
    call[1] = "get_possible_moves" =>
        LET row == figs[1].position[1]
            col == figs[1].position[2]
            white == figs[1].color = "white"
            forward == IF white THEN -1 ELSE 1
            start == IF white THEN 6 ELSE 1
            expected == {<<row + forward, col>>}
                           \cup (IF row = start THEN {<<row + 2 * forward, col>>} ELSE {})
        IN  /\ ret = expected \cap Cells
            /\ ret \subseteq Cells

\* a white pawn on row 0 has no move: the cell above the board was left out
PawnGeometryReached ==
    /\ call[1] = "get_possible_moves"
    /\ figs[1].kind = "Pawn"
    /\ figs[1].color = "white"
    /\ figs[1].position[1] = 0
    /\ ret = {}

-----------------------------------------------------------------------------
(* Further properties of Board.check_move, checked under SpecBoard          *)

\* C31: on a chess or extended Board, for a piece on from and another cell to
\* holding a piece of the mover's colour, check_move(from, to) answers what it
\* answers on the same board with to emptied: a friendly piece on the
\* destination does not make an otherwise accepted move illegal.
SelfCaptureNotBlocked ==
    (call[1] = "check_move" /\ cls \in {"Board", "ExtendedBoard"}) =>
        LET from == call[2]
            to == call[3]
        IN  (/\ OnCell(from) # None
             /\ to # from
             /\ OnCell(to) # None
             /\ figs[OnCell(to)].color = figs[OnCell(from)].color)
                => ((ret = "True")
                       <=> check_move(SetAt(TheBoard, to[1], to[2], None), from, to))

\* a white rook was allowed the cell next to it, on which a white piece stands
SelfCaptureNotBlockedReached ==
    /\ cls \in {"Board", "ExtendedBoard"}
    /\ call = <<"check_move", MoverCell, <<3, 3>>>>
    /\ figs[OnCell(MoverCell)].kind = "Rook"
    /\ figs[OnCell(MoverCell)].color = "white"
    /\ OnCell(<<3, 3>>) # None
    /\ figs[OnCell(<<3, 3>>)].color = "white"
    /\ ret = "True"
====
